---- MODULE Spec2Model ----
(***************************************************************************)
(* Model of the event layer of sdl3-deno: the Event accessor (poll, wait,  *)
(* waitTimeout, push, the variant pushes, toObject), the Event.iter async  *)
(* generator and the EventArray batch, over a model of the native SDL      *)
(* event queue as the binding's documentation describes it.                *)
(***************************************************************************)
EXTENDS Integers, Sequences, FiniteSets, TLC

(***************************************************************************)
(* Bounds of the model.                                                    *)
(***************************************************************************)
MaxQueue == 2       \* capacity of the native queue in the model
MaxProduced == 2    \* events the platform delivers in one run
MaxTime == 3        \* last clock value
MaxCycles == 2      \* timer suspensions of one generator
MaxBatch == 2       \* largest EventArray capacity
HistLen == 4        \* generator steps remembered

(***************************************************************************)
(* SDL_EventType values used by the wrappers (gen/enums/SDL_events.ts).    *)
(***************************************************************************)
QUIT == 256
KEY_DOWN == 768
MOUSE_MOTION == 1024
USER == 32768
LAST == 65535

SizeOfSdlEvent == 128

VARIABLES
    queue,      \* the native event queue, oldest record first
    buffer,     \* Event.#buffer: the record the Event views
    type,       \* Event.type: the cached tag
    pc,         \* position of the Event.iter generator
    interval,   \* iter's parameter
    hasIdle,    \* whether onIdle was provided
    nextFrame,  \* iter's local nextFrame
    quit,       \* iter's local quit
    t0,         \* clock value when the generator first ran
    cycles,     \* timer suspensions so far
    sleepReq,   \* delay handed to setTimeout by the last suspension
    sleepAt,    \* clock value when that timer was set
    completion, \* how the generator completed: none, return, throw, cancel
    now,        \* Date.now()
    produced,   \* events the platform has delivered
    dequeued,   \* records the generator's poll() calls dequeued
    yielded,    \* records (with the cached tag) the generator yielded
    hist,       \* the generator's last steps
    call,       \* the last call made on the Event or the EventArray
    buf,        \* EventArray.buf: maxEvents records
    numEvents,  \* EventArray.numEvents
    maxEvents,  \* EventArray.maxEvents
    target,     \* the object the application drives: the Event or the EventArray
    frames,     \* the EventArray.get / fold calls in progress, outermost first
    map,        \* eventWatchers.map: the registry of callbacks
    nativeFilter,   \* the event filter installed natively, <<>> if none
    nativeWatches,  \* the event watches installed natively, in order
    nextCb,     \* the next callback handle createCb returns
    config,     \* the user config loadConfig imported, <<>> if there is no file
    environ,    \* the environment variables of the process
    fsDirs,     \* the directories that contain the library files
    loaded,     \* what loadConfig returned and the variables it consulted
    cells,      \* SnakeContext.cells
    head,       \* SnakeContext.head
    tail,       \* SnakeContext.tail
    next_dir,   \* SnakeContext.next_dir
    inhibit_tail_step,  \* SnakeContext.inhibit_tail_step
    occupied_cells,     \* SnakeContext.occupied_cells
    state,      \* SnakeContext.state
    lastMove,   \* the direction of the snake's most recent move
    starved     \* createFood was called on a grid with no empty cell

vars == <<queue, buffer, type, pc, interval, hasIdle, nextFrame, quit, t0,
          cycles, sleepReq, sleepAt, completion, now, produced, dequeued,
          yielded, hist, call, buf, numEvents, maxEvents, target, frames,
          map, nativeFilter, nativeWatches, nextCb, config, environ, fsDirs,
          loaded, cells, head, tail, next_dir, inhibit_tail_step,
          occupied_cells, state, lastMove, starved>>

arrVars == <<buf, numEvents, maxEvents, target>>
envVars == <<now, produced>>
watchVars == <<map, nativeFilter, nativeWatches, nextCb>>
confVars == <<config, environ, fsDirs, loaded>>
snakeVars == <<cells, head, tail, next_dir, inhibit_tail_step, occupied_cells,
               state, lastMove, starved>>
appVars == <<confVars, snakeVars>>

eventVars == <<queue, buffer, type>>
genVars == <<pc, interval, hasIdle, nextFrame, quit, t0, cycles, sleepReq,
             sleepAt, completion>>
ghostVars == <<dequeued, yielded, hist>>

(***************************************************************************)
(* Records: the leading common header and one payload word.                *)
(***************************************************************************)
Rec(t, r, ts, d) == [type |-> t, reserved |-> r, timestamp |-> ts, data |-> d]

ZeroRec == Rec(0, 0, 0, 0)

\* The record of a call: the object it was made on, what it returned, whether
\* it threw, what the native enqueue answered, its argument, how many times
\* it called push(), and the object it returned.
NoCall ==
    [op |-> "none", obj |-> "none", ret |-> FALSE, threw |-> FALSE,
     enq |-> "none", arg |-> <<>>, pushes |-> 0, result |-> <<>>]

Max0(x) == IF x > 0 THEN x ELSE 0

Push(h, k) == IF Len(h) < HistLen THEN Append(h, k) ELSE Append(Tail(h), k)

(***************************************************************************)
(* The native queue calls, as documented in the bindings.                  *)
(***************************************************************************)
\* SDL_PollEvent: the next event is removed from the queue and stored in
\* the structure; false if none is available.
pollEvent(q, b) ==
    IF q # <<>> THEN [ret |-> TRUE, q |-> Tail(q), b |-> Head(q)]
    ELSE [ret |-> FALSE, q |-> q, b |-> b]

\* an enqueue that copies the common header only
pushEventHeaderOnly(q, b, rej) ==
    IF rej THEN [ret |-> FALSE, q |-> q, why |-> "filtered"]
    ELSE IF Len(q) < MaxQueue
    THEN [ret |-> TRUE, q |-> Append(q, [b EXCEPT !.data = 0]), why |-> "queued"]
    ELSE [ret |-> FALSE, q |-> q, why |-> "full"]

\* SDL_PushEvent: the event is copied into the queue; false if the event was
\* filtered (rej) or on failure, commonly the queue being full.
pushEvent(q, b, rej) ==
    IF rej THEN [ret |-> FALSE, q |-> q, why |-> "filtered"]
    ELSE IF Len(q) < MaxQueue THEN [ret |-> TRUE, q |-> Append(q, b), why |-> "queued"]
    ELSE [ret |-> FALSE, q |-> q, why |-> "full"]

(***************************************************************************)
(* Event                                                                   *)
(***************************************************************************)
\* a tag read at the wrong offset of the record
readTypeWrongOffset(b) == b.timestamp

\* Event.readType_(): this.type = view.getUint32(0)
readType_(b) == b.type

\* <native call>(this.pointer) && this.readType_(), n the native call's outcome
EventLoad(n) ==
    /\ queue' = n.q
    /\ buffer' = n.b
    /\ type' = IF n.ret THEN readType_(n.b) ELSE type

\* Event.poll(): SDL.pollEvent(this.pointer) && this.readType_()
pollRet == pollEvent(queue, buffer).ret

poll == EventLoad(pollEvent(queue, buffer))

\* Event.wait(): SDL.waitEvent(this.pointer) && this.readType_().  The call
\* blocks while the queue is empty; err is the native wait failing.
waitEvent(q, b, err) ==
    IF err THEN [ret |-> FALSE, q |-> q, b |-> b] ELSE pollEvent(q, b)

\* Event.waitTimeout(ms): false when the timeout elapses with no event.
waitEventTimeout(q, b) == pollEvent(q, b)

\* a push that reports success whatever the native call returned
pushAlwaysTrue(b, rej) == [pushEvent(queue, b, rej) EXCEPT !.ret = TRUE]

\* Event.push(): SDL.pushEvent(this.pointer)
push(b, rej) == pushEvent(queue, b, rej)

(***************************************************************************)
(* EventUnion: the typed projections and the variant pushes.  The struct   *)
(* readers and writers (gen/structs/SDL_events.ts) copy the fields of the  *)
(* variant between the record and the view; a QuitEvent has the common     *)
(* header only, the others carry the payload word too.                     *)
(***************************************************************************)
HeaderFields == {"type", "reserved", "timestamp"}

read_CommonEvent(b) == [f \in HeaderFields |-> b[f]]
read_QuitEvent(b) == [f \in HeaderFields |-> b[f]]
read_KeyboardEvent(b) == [f \in HeaderFields \cup {"data"} |-> b[f]]
read_UserEvent(b) == [f \in HeaderFields \cup {"data"} |-> b[f]]
read_MouseMotionEvent(b) == [f \in HeaderFields \cup {"data"} |-> b[f]]

write_Fields(e, b, fields) == [f \in DOMAIN b |-> IF f \in fields THEN e[f] ELSE b[f]]

write_CommonEvent(e, b) == write_Fields(e, b, HeaderFields)
write_QuitEvent(e, b) == write_Fields(e, b, HeaderFields)
write_KeyboardEvent(e, b) == write_Fields(e, b, HeaderFields \cup {"data"})
write_UserEvent(e, b) == write_Fields(e, b, HeaderFields \cup {"data"})
write_MouseMotionEvent(e, b) == write_Fields(e, b, HeaderFields \cup {"data"})

\* { ...defaults, ...e }: the caller's fields over the defaults
Spread(defaults, e) == e @@ defaults

\* the defaults spread after the caller's fields
QuitMergedDefaultsLast(e) == Spread(e, [type |-> QUIT, reserved |-> 0, timestamp |-> 0])

\* pushQuit(e): { type: EventType.QUIT, reserved: 0, timestamp: 0n, ...e }
QuitMerged(e) == Spread([type |-> QUIT, reserved |-> 0, timestamp |-> 0], e)

\* pushMouseMotion(e): { type: EventType.MOUSE_MOTION, reserved: 0, timestamp: 0n, ...e }
MouseMotionMerged(e) ==
    Spread([type |-> MOUSE_MOTION, reserved |-> 0, timestamp |-> 0], e)

\* pushKeyboard(e), pushUser(e): { reserved: 0, timestamp: 0n, ...e }
TaggedMerged(e) == Spread([reserved |-> 0, timestamp |-> 0], e)

(***************************************************************************)
(* Event.iter: the async generator.  pc is the generator's position:       *)
(*   start   created, not yet run                                          *)
(*   loop    at `while (this.poll())`                                      *)
(*   polled  poll() returned true, before `yield this`                     *)
(*   yield   suspended at `yield this`                                     *)
(*   idle    poll() returned false, before `if (onIdle) onIdle()`          *)
(*   timer   before the timer is set                                       *)
(*   sleep   awaiting the timer                                            *)
(*   done    completed                                                     *)
(***************************************************************************)
Intervals == {1, 2}
IterTags == {QUIT, KEY_DOWN}

\* let nextFrame = Date.now() + interval
FirstFrame(n, iv) == n + iv

\* const remaining = nextFrame - now
Remaining(nf, n) == nf - n

\* a relative schedule: the next frame counted from the current time
AdvanceFrameRelative(nf, iv, n) == n + iv

\* nextFrame += interval
AdvanceFrame(nf, iv, n) == nf + iv

\* setTimeout(resolve, remaining > 0 ? remaining : 0)
Timeout(remaining) == IF remaining > 0 THEN remaining ELSE 0

\* const quit = this.type === EventType.QUIT, read before `yield this`
QuitBeforeYield == type = QUIT

\* the tag read again after the consumer has handled the event
QuitAfterYieldReread == type = QUIT

\* if (quit) return, after the generator is resumed
QuitAfterYield == quit

\* the first next(): the body runs up to the loop
IterStart ==
    /\ pc = "start"
    /\ nextFrame' = FirstFrame(now, interval)
    /\ t0' = now
    /\ pc' = "loop"
    /\ UNCHANGED <<appVars, frames, watchVars, eventVars, interval, hasIdle, quit, cycles, sleepReq,
                   sleepAt, completion, envVars, ghostVars, call, arrVars>>

\* a drain loop that polls once more before yielding
IterPollSkip ==
    /\ pc = "loop"
    /\ LET n1 == pollEvent(queue, buffer)
           n2 == pollEvent(n1.q, n1.b)
       IN /\ queue' = n2.q
          /\ buffer' = n2.b
          /\ type' = IF n1.ret THEN readType_(n2.b) ELSE type
          /\ dequeued' = IF n2.ret THEN dequeued \o <<n1.b, n2.b>>
                          ELSE IF n1.ret THEN Append(dequeued, n1.b)
                          ELSE dequeued
          /\ pc' = IF n1.ret THEN "polled" ELSE "idle"
          /\ hist' = Push(hist, IF n1.ret THEN "pollT" ELSE "pollF")
    /\ UNCHANGED <<appVars, frames, watchVars, interval, hasIdle, nextFrame, quit, t0, cycles, sleepReq,
                   sleepAt, completion, envVars, yielded, call, arrVars>>

\* a loop that returns when the queue is empty
IterPollEnds ==
    /\ pc = "loop"
    /\ poll
    /\ IF pollRet
       THEN /\ pc' = "polled"
            /\ dequeued' = Append(dequeued, pollEvent(queue, buffer).b)
            /\ completion' = completion
       ELSE /\ pc' = "done"
            /\ dequeued' = dequeued
            /\ completion' = "return"
    /\ hist' = Push(hist, IF pollRet THEN "pollT" ELSE "pollF")
    /\ UNCHANGED <<appVars, frames, watchVars, interval, hasIdle, nextFrame, quit, t0, cycles, sleepReq,
                   sleepAt, envVars, yielded, call, arrVars>>

\* while (this.poll())
IterPoll ==
    /\ pc = "loop"
    /\ poll
    /\ IF pollRet
       THEN /\ pc' = "polled"
            /\ dequeued' = Append(dequeued, pollEvent(queue, buffer).b)
            /\ hist' = Push(hist, "pollT")
       ELSE /\ pc' = "idle"
            /\ dequeued' = dequeued
            /\ hist' = Push(hist, "pollF")
    /\ UNCHANGED <<appVars, frames, watchVars, interval, hasIdle, nextFrame, quit, t0, cycles, sleepReq,
                   sleepAt, completion, envVars, yielded, call, arrVars>>

\* const quit = ...; yield this
IterYield ==
    /\ pc = "polled"
    /\ quit' = QuitBeforeYield
    /\ yielded' = Append(yielded, [rec |-> buffer, tag |-> type])
    /\ hist' = Push(hist, "yield")
    /\ pc' = "yield"
    /\ UNCHANGED <<appVars, frames, watchVars, eventVars, interval, hasIdle, nextFrame, t0, cycles,
                   sleepReq, sleepAt, completion, envVars, dequeued, call,
                   arrVars>>

\* the consumer's next() at the yield: if (quit) return
IterResume ==
    /\ pc = "yield"
    /\ IF QuitAfterYield
       THEN pc' = "done" /\ completion' = "return"
       ELSE pc' = "loop" /\ completion' = completion
    /\ hist' = Push(hist, "resume")
    /\ UNCHANGED <<appVars, frames, watchVars, eventVars, interval, hasIdle, nextFrame, quit, t0, cycles,
                   sleepReq, sleepAt, envVars, dequeued, yielded, call,
                   arrVars>>

\* a loop that polls again right after onIdle, without awaiting the timer
IterIdleNoSleep ==
    /\ pc = "idle"
    /\ hist' = IF hasIdle THEN Push(hist, "idle") ELSE hist
    /\ pc' = "loop"
    /\ UNCHANGED <<appVars, frames, watchVars, eventVars, interval, hasIdle, nextFrame, quit, t0, cycles,
                   sleepReq, sleepAt, completion, envVars, dequeued, yielded,
                   call, arrVars>>

\* if (onIdle) onIdle(): the callback returns or throws
IterIdle ==
    /\ pc = "idle"
    /\ \/ /\ hasIdle
          /\ hist' = Push(hist, "idle")
          /\ pc' = "timer"
          /\ completion' = completion
       \/ /\ hasIdle
          /\ hist' = Push(hist, "idle")
          /\ pc' = "done"
          /\ completion' = "throw"
       \/ /\ ~hasIdle
          /\ hist' = hist
          /\ pc' = "timer"
          /\ completion' = completion
    /\ UNCHANGED <<appVars, frames, watchVars, eventVars, interval, hasIdle, nextFrame, quit, t0, cycles,
                   sleepReq, sleepAt, envVars, dequeued, yielded, call,
                   arrVars>>

\* now = Date.now(); remaining = nextFrame - now; nextFrame += interval;
\* await new Promise(resolve => setTimeout(resolve, ...))
IterTimer ==
    /\ pc = "timer"
    /\ cycles < MaxCycles
    /\ sleepReq' = Timeout(Remaining(nextFrame, now))
    /\ sleepAt' = now
    /\ nextFrame' = AdvanceFrame(nextFrame, interval, now)
    /\ cycles' = cycles + 1
    /\ hist' = Push(hist, "sleep")
    /\ pc' = "sleep"
    /\ UNCHANGED <<appVars, frames, watchVars, eventVars, interval, hasIdle, quit, t0, completion,
                   envVars, dequeued, yielded, call, arrVars>>

\* the timer fires no earlier than its delay
TimerFire ==
    /\ pc = "sleep"
    /\ now >= sleepAt + sleepReq
    /\ hist' = Push(hist, "wake")
    /\ pc' = "loop"
    /\ UNCHANGED <<appVars, frames, watchVars, eventVars, interval, hasIdle, nextFrame, quit, t0, cycles,
                   sleepReq, sleepAt, completion, envVars, dequeued, yielded,
                   call, arrVars>>

(***************************************************************************)
(* The consumer of the generator (for await ... of Event.iter(...)) and    *)
(* the environment.                                                        *)
(***************************************************************************)
\* break out of the for await loop: return() while suspended at the yield
ConsumerReturn ==
    /\ pc = "yield"
    /\ pc' = "done"
    /\ completion' = "cancel"
    /\ UNCHANGED <<appVars, frames, watchVars, eventVars, interval, hasIdle, nextFrame, quit, t0, cycles,
                   sleepReq, sleepAt, envVars, ghostVars, call, arrVars>>

\* the consumer polls the yielded Event itself
ConsumerPoll ==
    /\ pc = "yield"
    /\ poll
    /\ UNCHANGED <<appVars, frames, watchVars, genVars, envVars, ghostVars, call, arrVars>>

\* the consumer calls event.pushQuit({}) on the yielded Event
ConsumerPushQuit ==
    /\ pc = "yield"
    /\ buffer' = write_QuitEvent(QuitMerged(<<>>), buffer)
    /\ queue' = push(buffer', FALSE).q
    /\ type' = type
    /\ UNCHANGED <<appVars, frames, watchVars, genVars, envVars, ghostVars, call, arrVars>>

\* the platform delivers an event; its timestamp is its delivery number
NativeProduce ==
    /\ produced < MaxProduced
    /\ Len(queue) < MaxQueue
    /\ \E t \in IterTags : queue' = Append(queue, Rec(t, 0, produced + 1, 1))
    /\ produced' = produced + 1
    /\ UNCHANGED <<appVars, frames, watchVars, buffer, type, genVars, now, ghostVars, call, arrVars>>

Tick ==
    /\ now < MaxTime
    /\ now' = now + 1
    /\ UNCHANGED <<appVars, frames, watchVars, eventVars, genVars, produced, ghostVars, call, arrVars>>

\* no config has been loaded
ConfIdle ==
    /\ config = <<>>
    /\ environ = <<>>
    /\ fsDirs = {}
    /\ loaded = <<>>

\* no game has been created
SnakeIdle ==
    /\ cells = <<>>
    /\ head = <<>>
    /\ tail = <<>>
    /\ next_dir = "RIGHT"
    /\ inhibit_tail_step = 0
    /\ occupied_cells = 0
    /\ state = "none"
    /\ lastMove = "RIGHT"
    /\ starved = FALSE

Init ==
    /\ queue = <<>>
    /\ buffer = ZeroRec
    /\ type = 0
    /\ pc = "start"
    /\ interval \in Intervals
    /\ hasIdle \in BOOLEAN
    /\ nextFrame = 0
    /\ quit = FALSE
    /\ t0 = 0
    /\ cycles = 0
    /\ sleepReq = 0
    /\ sleepAt = 0
    /\ completion = "none"
    /\ now = 0
    /\ produced = 0
    /\ dequeued = <<>>
    /\ yielded = <<>>
    /\ hist = <<>>
    /\ call = NoCall
    /\ buf = <<>>
    /\ numEvents = 0
    /\ maxEvents = 0
    /\ target = "event"
    /\ frames = <<>>
    /\ map = <<>>
    /\ nativeFilter = <<>>
    /\ nativeWatches = <<>>
    /\ nextCb = 1
    /\ ConfIdle
    /\ SnakeIdle

Next ==
    \/ IterStart
    \/ IterPoll
    \/ IterYield
    \/ IterResume
    \/ IterIdle
    \/ IterTimer
    \/ TimerFire
    \/ ConsumerReturn
    \/ ConsumerPoll
    \/ ConsumerPushQuit
    \/ NativeProduce
    \/ Tick

Spec == Init /\ [][Next]_vars

(***************************************************************************)
(* The variant pushes and toObject of EventUnion, for the five variants    *)
(* the model carries: common, quit, mouseMotion, keyboard, user.           *)
(***************************************************************************)
Variants == {"pushCommon", "pushQuit", "pushMouseMotion", "pushKeyboard", "pushUser"}

\* the variants whose name implies one tag
ImpliedTag(v) == IF v = "pushQuit" THEN QUIT ELSE MOUSE_MOTION
Implied == {"pushQuit", "pushMouseMotion"}

VariantFields(v) ==
    IF v \in {"pushCommon", "pushQuit"} THEN HeaderFields
    ELSE HeaderFields \cup {"data"}

Merged(v, e) ==
    CASE v = "pushQuit" -> QuitMerged(e)
      [] v = "pushMouseMotion" -> MouseMotionMerged(e)
      [] OTHER -> TaggedMerged(e)

Write(v, m, b) ==
    CASE v = "pushCommon" -> write_CommonEvent(m, b)
      [] v = "pushQuit" -> write_QuitEvent(m, b)
      [] v = "pushMouseMotion" -> write_MouseMotionEvent(m, b)
      [] v = "pushKeyboard" -> write_KeyboardEvent(m, b)
      [] OTHER -> write_UserEvent(m, b)

\* the projection getter that goes with a variant push
Read(v, b) ==
    CASE v = "pushCommon" -> read_CommonEvent(b)
      [] v = "pushQuit" -> read_QuitEvent(b)
      [] v = "pushMouseMotion" -> read_MouseMotionEvent(b)
      [] v = "pushKeyboard" -> read_KeyboardEvent(b)
      [] OTHER -> read_UserEvent(b)

\* Arguments the type of each variant push admits: PartialCommon makes every
\* header field optional, PartialComm_T requires the type.
Args(v) ==
    CASE v = "pushCommon" -> {[type |-> LAST + 1]}
      [] v = "pushQuit" ->
            {<<>>, [type |-> KEY_DOWN], [reserved |-> 1, timestamp |-> 1]}
      [] v = "pushMouseMotion" -> {[data |-> 1]}
      [] v = "pushKeyboard" -> {[type |-> KEY_DOWN, data |-> 1]}
      [] OTHER -> {[type |-> USER + 1, timestamp |-> 1, data |-> 0]}

\* EventUnion.toObject(): the switch on this.type
toObject(t, b) ==
    CASE t = QUIT -> read_QuitEvent(b)
      [] t = KEY_DOWN -> read_KeyboardEvent(b)
      [] t = MOUSE_MOTION -> read_MouseMotionEvent(b)
      [] t = USER -> read_UserEvent(b)
      [] OTHER -> IF t >= USER /\ t <= LAST THEN read_UserEvent(b)
                  ELSE read_CommonEvent(b)

(***************************************************************************)
(* Calls on an Event.                                                      *)
(***************************************************************************)
EvTags == {QUIT, LAST + 1}

\* the platform delivers an event
Deliver ==
    /\ target = "event"
    /\ Len(queue) < MaxQueue
    /\ \E t \in EvTags : queue' = Append(queue, Rec(t, 0, 1, 1))
    /\ call' = [NoCall EXCEPT !.op = "deliver"]
    /\ UNCHANGED <<appVars, frames, watchVars, buffer, type, genVars, envVars, ghostVars, arrVars>>

EvPoll ==
    /\ target = "event"
    /\ poll
    /\ call' = [NoCall EXCEPT !.op = "poll", !.obj = "event", !.ret = pollRet]
    /\ UNCHANGED <<appVars, frames, watchVars, genVars, envVars, ghostVars, arrVars>>

\* Event.wait(): blocks while the queue is empty, unless the wait fails
EvWait ==
    /\ target = "event"
    /\ \E err \in BOOLEAN :
          /\ err \/ queue # <<>>
          /\ LET n == waitEvent(queue, buffer, err) IN
             /\ EventLoad(n)
             /\ call' = [NoCall EXCEPT !.op = "wait", !.obj = "event", !.ret = n.ret]
    /\ UNCHANGED <<appVars, frames, watchVars, genVars, envVars, ghostVars, arrVars>>

EvWaitTimeout ==
    /\ target = "event"
    /\ LET n == waitEventTimeout(queue, buffer) IN
       /\ EventLoad(n)
       /\ call' = [NoCall EXCEPT !.op = "waitTimeout", !.obj = "event", !.ret = n.ret]
    /\ UNCHANGED <<appVars, frames, watchVars, genVars, envVars, ghostVars, arrVars>>

EvPush ==
    /\ target = "event"
    /\ \E rej \in BOOLEAN :
          LET n == push(buffer, rej) IN
          /\ queue' = n.q
          /\ call' = [NoCall EXCEPT !.op = "push", !.obj = "event",
                                    !.ret = n.ret, !.enq = n.why, !.pushes = 1]
    /\ UNCHANGED <<appVars, frames, watchVars, buffer, type, genVars, envVars, ghostVars, arrVars>>

\* push<Variant>(e): _.write_<Variant>Event({ ...defaults, ...e }, this.dt);
\* this.push(); the value push() returns is dropped
EvVariantPush ==
    /\ target = "event"
    /\ \E v \in Variants : \E e \in Args(v) :
          LET b2 == Write(v, Merged(v, e), buffer)
              n == push(b2, FALSE)
          IN /\ buffer' = b2
             /\ queue' = n.q
             /\ call' = [NoCall EXCEPT !.op = v, !.obj = "event", !.enq = n.why,
                                       !.arg = e, !.pushes = 1]
    /\ UNCHANGED <<appVars, frames, watchVars, type, genVars, envVars, ghostVars, arrVars>>

EvToObject ==
    /\ target = "event"
    /\ call' = [NoCall EXCEPT !.op = "toObject", !.obj = "event",
                              !.result = toObject(type, buffer)]
    /\ UNCHANGED <<appVars, frames, watchVars, eventVars, genVars, envVars, ghostVars, arrVars>>

(***************************************************************************)
(* EventArray: record i of the batch is buf[i + 1].                        *)
(***************************************************************************)
\* EventArray declares no type field: this.type is undefined, and every
\* comparison of the switch with it is false
Undefined == -1
arrType == Undefined

\* get dt(): throws "PeepEvents buffer full" when numEvents >= maxEvents; the
\* DataView constructor throws a RangeError for a negative byte offset
dtThrows == numEvents >= maxEvents \/ numEvents < 0

\* a push that drops the record when the batch is full
ArrPushSilent ==
    /\ target = "array"
    /\ call' = [NoCall EXCEPT !.op = "push", !.obj = "array", !.pushes = 1]
    /\ numEvents' = IF numEvents >= maxEvents THEN numEvents ELSE numEvents + 1
    /\ UNCHANGED <<appVars, frames, watchVars, eventVars, genVars, envVars, ghostVars, buf,
                   maxEvents, target>>

\* EventArray.push()
ArrPush ==
    /\ target = "array"
    /\ IF numEvents >= maxEvents
       THEN /\ call' = [NoCall EXCEPT !.op = "push", !.obj = "array", !.threw = TRUE]
            /\ numEvents' = numEvents
       ELSE /\ call' = [NoCall EXCEPT !.op = "push", !.obj = "array", !.pushes = 1]
            /\ numEvents' = numEvents + 1
    /\ UNCHANGED <<appVars, frames, watchVars, eventVars, genVars, envVars, ghostVars, buf, maxEvents, target>>

\* push<Variant>(e) on the batch: this.dt is evaluated before the write
ArrVariantPushCall(v, e) ==
    /\ target = "array"
    /\ IF dtThrows
       THEN /\ call' = [NoCall EXCEPT !.op = v, !.obj = "array", !.threw = TRUE,
                                      !.arg = e]
            /\ UNCHANGED <<buf, numEvents>>
       ELSE /\ buf' = [buf EXCEPT ![numEvents + 1] = Write(v, Merged(v, e), @)]
            /\ numEvents' = numEvents + 1
            /\ call' = [NoCall EXCEPT !.op = v, !.obj = "array", !.arg = e,
                                      !.pushes = 1]
    /\ UNCHANGED <<appVars, frames, watchVars, eventVars, genVars, envVars, ghostVars,
                   maxEvents, target>>

ArrVariantPush == \E v \in Variants : \E e \in Args(v) : ArrVariantPushCall(v, e)

\* toObject() on the batch: every projection reads this.dt
ArrToObject ==
    /\ target = "array"
    /\ IF dtThrows
       THEN call' = [NoCall EXCEPT !.op = "toObject", !.obj = "array", !.threw = TRUE]
       ELSE call' = [NoCall EXCEPT !.op = "toObject", !.obj = "array",
                                   !.result = toObject(arrType, buf[numEvents + 1])]
    /\ UNCHANGED <<appVars, frames, watchVars, eventVars, genVars, envVars, ghostVars, arrVars>>

InitEvent ==
    /\ queue = <<>>
    /\ buffer = ZeroRec
    /\ type = 0
    /\ pc = "start"
    /\ interval = 1
    /\ hasIdle = FALSE
    /\ nextFrame = 0
    /\ quit = FALSE
    /\ t0 = 0
    /\ cycles = 0
    /\ sleepReq = 0
    /\ sleepAt = 0
    /\ completion = "none"
    /\ now = 0
    /\ produced = 0
    /\ dequeued = <<>>
    /\ yielded = <<>>
    /\ hist = <<>>
    /\ call = NoCall
    /\ target \in {"event", "array"}
    /\ maxEvents \in (IF target = "array" THEN 0..MaxBatch ELSE {0})
    /\ buf = [i \in 1..maxEvents |-> ZeroRec]
    /\ numEvents = 0
    /\ frames = <<>>
    /\ map = <<>>
    /\ nativeFilter = <<>>
    /\ nativeWatches = <<>>
    /\ nextCb = 1
    /\ ConfIdle
    /\ SnakeIdle

NextEvent ==
    \/ Deliver
    \/ EvPoll
    \/ EvWait
    \/ EvWaitTimeout
    \/ EvPush
    \/ EvVariantPush
    \/ EvToObject
    \/ ArrPush
    \/ ArrVariantPush
    \/ ArrToObject

SpecEvent == InitEvent /\ [][NextEvent]_vars

(***************************************************************************)
(* EventArray.get and fold, and Event.peep on a batch.  The callback of    *)
(* get or fold is application code: while it runs, a frame of the call is  *)
(* on `frames` and the application may call anything on the batch.         *)
(***************************************************************************)
MaxDepth == 2       \* get / fold calls nested in one another

Indices == -1..MaxBatch
Actions == {"ADDEVENT", "PEEKEVENT", "GETEVENT"}
Ranges == {<<0, LAST>>, <<KEY_DOWN, KEY_DOWN>>}
ArrTags == {KEY_DOWN}

\* the staging call the application makes on a batch
Staged == {<<"pushKeyboard", [type |-> KEY_DOWN, timestamp |-> 1, data |-> 1]>>}

Min(a, b) == IF a < b THEN a ELSE b

InRange(r, lo, hi) == r.type >= lo /\ r.type <= hi

Matching(q, lo, hi) == SelectSeq(q, LAMBDA r : InRange(r, lo, hi))

RECURSIVE RemoveFirst(_, _, _, _)
RemoveFirst(q, k, lo, hi) ==
    IF k = 0 \/ q = <<>> THEN q
    ELSE IF InRange(Head(q), lo, hi) THEN RemoveFirst(Tail(q), k - 1, lo, hi)
    ELSE <<Head(q)>> \o RemoveFirst(Tail(q), k, lo, hi)

Store(b, recs) == [i \in 1..Len(b) |-> IF i <= Len(recs) THEN recs[i] ELSE b[i]]

\* SDL_PeepEvents: ADDEVENT adds up to numevents events to the back of the
\* queue; PEEKEVENT returns up to numevents events of the front of the queue
\* within minType..maxType and leaves them queued; GETEVENT removes them.
\* Returns the number of events stored, or -1 on failure.
peepEvents(q, b, numevents, action, lo, hi, fail) ==
    IF fail THEN [r |-> -1, q |-> q, b |-> b]
    ELSE IF action = "ADDEVENT"
    THEN LET k == Min(numevents, MaxQueue - Len(q))
         IN [r |-> k, q |-> q \o SubSeq(b, 1, k), b |-> b]
    ELSE LET m == Matching(q, lo, hi)
             k == Min(numevents, Len(m))
         IN [r |-> k,
             q |-> IF action = "GETEVENT" THEN RemoveFirst(q, k, lo, hi) ELSE q,
             b |-> Store(b, SubSeq(m, 1, k))]

\* the count Event.peep hands to the native call: events.maxEvents
peepCount == maxEvents

\* a peep that sets the cursor whatever the action
peepCursorAlways(action, r, n) == r

\* if (action !== ADDEVENT) events.numEvents = r
peepCursor(action, r, n) == IF action # "ADDEVENT" THEN r ELSE n

\* Event.peep(events: EventArray, action, minType, maxType).  The model has
\* the application call it between its get / fold calls, not inside their
\* callbacks.
ArrPeep ==
    /\ target = "array"
    /\ frames = <<>>
    /\ \E action \in Actions : \E range \in Ranges : \E fail \in BOOLEAN :
          LET n == peepEvents(queue, buf, peepCount, action, range[1], range[2], fail)
              c == [NoCall EXCEPT !.op = "peep", !.obj = "array", !.arg = action,
                                  !.result = [r |-> n.r, numevents |-> peepCount,
                                              returned |-> n.r]]
          IN IF n.r = -1
             THEN /\ call' = [c EXCEPT !.threw = TRUE]
                  /\ UNCHANGED <<queue, buf, numEvents>>
             ELSE /\ call' = c
                  /\ queue' = n.q
                  /\ buf' = n.b
                  /\ numEvents' = peepCursor(action, n.r, numEvents)
    /\ UNCHANGED <<appVars, frames, watchVars, buffer, type, genVars, envVars, ghostVars,
                   maxEvents, target>>

\* the platform delivers an event while the application works on a batch
ArrDeliver ==
    /\ target = "array"
    /\ frames = <<>>
    /\ Len(queue) < MaxQueue
    /\ \E t \in ArrTags : queue' = Append(queue, Rec(t, 0, 1, 1))
    /\ call' = [NoCall EXCEPT !.op = "deliver"]
    /\ UNCHANGED <<appVars, frames, watchVars, buffer, type, genVars, envVars, ghostVars,
                   arrVars>>

\* the application stages a record
ArrStage == \E p \in Staged : ArrVariantPushCall(p[1], p[2])

Top == frames[Len(frames)]
Outer == SubSeq(frames, 1, Len(frames) - 1)

\* a frame: the call, its saved cursor (t in get, n in fold), the index of
\* the callback in progress, the cursor at entry and, for fold, the calls
\* made so far as <<index passed, record viewed>>
Frame(op, t, i, seen) == [op |-> op, t |-> t, i |-> i, entry |-> numEvents, seen |-> seen]

\* EventArray.get(index, f), up to the call of f.  The model has the
\* application read a batch once the native queue is drained.
ArrGet ==
    /\ target = "array"
    /\ queue = <<>>
    /\ Len(frames) < MaxDepth
    /\ \E index \in Indices :
          IF index >= numEvents
          THEN /\ call' = [NoCall EXCEPT !.op = "get", !.obj = "array",
                                         !.threw = TRUE, !.enq = "range",
                                         !.arg = index]
               /\ UNCHANGED <<frames, numEvents>>
          ELSE /\ frames' = Append(frames, Frame("get", numEvents, index, <<>>))
               /\ numEvents' = index
               /\ call' = [NoCall EXCEPT !.op = "get.f", !.obj = "array",
                                         !.arg = index]
    /\ UNCHANGED <<appVars, watchVars, eventVars, genVars, envVars, ghostVars, buf,
                   maxEvents, target>>

\* a loop that advances the view from where the callback left it
foldViewRelative(i, cur) == IF i = 0 THEN 0 ELSE cur + 1

\* this.numEvents = i
foldView(i, cur) == i

\* EventArray.fold(f), up to the first call of f
ArrFold ==
    /\ target = "array"
    /\ queue = <<>>
    /\ Len(frames) < MaxDepth
    /\ IF 0 < numEvents
       THEN /\ numEvents' = foldView(0, numEvents)
            /\ frames' = Append(frames, Frame("fold", numEvents, 0,
                                              <<<<0, numEvents'>>>>))
            /\ call' = [NoCall EXCEPT !.op = "fold.f", !.obj = "array", !.arg = 0]
       ELSE /\ call' = [NoCall EXCEPT !.op = "fold", !.obj = "array", !.ret = TRUE,
                                      !.result = <<>>]
            /\ UNCHANGED <<frames, numEvents>>
    /\ UNCHANGED <<appVars, watchVars, eventVars, genVars, envVars, ghostVars, buf,
                   maxEvents, target>>

\* a get whose cursor is restored only when the callback returns
getRestoreNoFinally(f, out) == IF out = "throw" THEN numEvents ELSE f.t

\* finally { this.numEvents = t }
getRestore(f, out) == f.t

\* the callback of the innermost get or fold returns true or false, or
\* throws; get then restores the cursor, fold calls f on the next record or
\* restores the cursor
ArrReturn ==
    /\ target = "array"
    /\ frames # <<>>
    /\ \E out \in {"true", "false", "throw"} :
          LET f == Top IN
          IF f.op = "get"
          THEN /\ out # "false"
               /\ frames' = Outer
               /\ numEvents' = getRestore(f, out)
               /\ call' = [NoCall EXCEPT !.op = "get", !.obj = "array",
                                         !.threw = (out = "throw"), !.arg = f.i,
                                         !.enq = IF numEvents # f.i THEN "moved"
                                                 ELSE "kept"]
          ELSE IF out = "true" /\ f.i + 1 < f.t
          THEN /\ numEvents' = foldView(f.i + 1, numEvents)
               /\ frames' = Append(Outer,
                      [f EXCEPT !.i = f.i + 1,
                                !.seen = Append(@, <<f.i + 1, numEvents'>>)])
               /\ call' = [NoCall EXCEPT !.op = "fold.f", !.obj = "array",
                                         !.arg = f.i + 1]
          ELSE /\ frames' = Outer
               /\ numEvents' = f.t
               /\ call' = [NoCall EXCEPT !.op = "fold", !.obj = "array",
                                         !.threw = (out = "throw"),
                                         !.ret = (out = "true"),
                                         !.result = f.seen]
    /\ UNCHANGED <<appVars, watchVars, eventVars, genVars, envVars, ghostVars, buf,
                   maxEvents, target>>

InitArray ==
    /\ queue = <<>>
    /\ buffer = ZeroRec
    /\ type = 0
    /\ pc = "start"
    /\ interval = 1
    /\ hasIdle = FALSE
    /\ nextFrame = 0
    /\ quit = FALSE
    /\ t0 = 0
    /\ cycles = 0
    /\ sleepReq = 0
    /\ sleepAt = 0
    /\ completion = "none"
    /\ now = 0
    /\ produced = 0
    /\ dequeued = <<>>
    /\ yielded = <<>>
    /\ hist = <<>>
    /\ call = NoCall
    /\ target = "array"
    /\ maxEvents \in 0..MaxBatch
    /\ buf = [i \in 1..maxEvents |-> ZeroRec]
    /\ numEvents = 0
    /\ frames = <<>>
    /\ map = <<>>
    /\ nativeFilter = <<>>
    /\ nativeWatches = <<>>
    /\ nextCb = 1
    /\ ConfIdle
    /\ SnakeIdle

NextArray ==
    \/ ArrPush
    \/ ArrStage
    \/ ArrToObject
    \/ ArrGet
    \/ ArrFold
    \/ ArrReturn
    \/ ArrPeep
    \/ ArrDeliver

SpecArray == InitArray /\ [][NextArray]_vars

(***************************************************************************)
(* The event filter and the event watches.  A callback handle is what      *)
(* createCb returns: a fresh Deno.UnsafeCallback wrapping the filter.  The *)
(* native side holds one filter and a list of watches, each a handle with  *)
(* its userdata; the filter a handle wraps is kept with it.                *)
(***************************************************************************)
MaxCb == 3          \* callback handles created in one run

Filters == {"f", "g"}
Userdatas == {"u", "v"}

Entry(f, u, cb) == [filter |-> f, userdata |-> u, callback |-> cb]

RemoveAt(seq, i) == SubSeq(seq, 1, i - 1) \o SubSeq(seq, i + 1, Len(seq))

\* findIndex: the first of the indices a predicate holds at, 0 if none
FindIndex(S) == IF S = {} THEN 0 ELSE CHOOSE i \in S : \A j \in S : i <= j

\* eventWatchers.add(filter, userdata, callback)
eventWatchersAdd(m, f, u, cb) == Append(m, Entry(f, u, cb))

\* eventWatchers.remove: findIndex(i => i.filter === filter && i.userdata === userdata)
eventWatchersIndex(m, f, u) ==
    FindIndex({i \in 1..Len(m) : m[i].filter = f /\ m[i].userdata = u})

\* SDL_RemoveEventWatch: deletes the watch added with this callback and
\* userdata, if there is one
removeEventWatch(ws, cb, u) ==
    LET i == FindIndex({k \in 1..Len(ws) :
                           ws[k].callback = cb /\ ws[k].userdata = u})
    IN IF i = 0 THEN ws ELSE RemoveAt(ws, i)

\* Event.setFilter(filter, userdata)
SetFilter ==
    /\ target = "registry"
    /\ nextCb <= MaxCb
    /\ \E f \in Filters : \E u \in Userdatas :
          /\ nativeFilter' = Entry(f, u, nextCb)
          /\ map' = eventWatchersAdd(map, f, u, nextCb)
          /\ call' = [NoCall EXCEPT !.op = "setFilter", !.arg = <<f, u>>,
                                    !.enq = "setEventFilter", !.result = nextCb]
    /\ nextCb' = nextCb + 1
    /\ UNCHANGED <<appVars, nativeWatches, frames, eventVars, genVars, envVars, ghostVars,
                   arrVars>>

\* Event.addWatch(filter, userdata): ok is what SDL_AddEventWatch returns
AddWatch ==
    /\ target = "registry"
    /\ nextCb <= MaxCb
    /\ \E f \in Filters : \E u \in Userdatas : \E ok \in BOOLEAN :
          IF ok
          THEN /\ nativeWatches' = Append(nativeWatches, Entry(f, u, nextCb))
               /\ map' = eventWatchersAdd(map, f, u, nextCb)
               /\ call' = [NoCall EXCEPT !.op = "addWatch", !.arg = <<f, u>>,
                                         !.ret = TRUE, !.enq = "addEventWatch",
                                         !.result = nextCb]
          ELSE /\ UNCHANGED <<nativeWatches, map>>
               /\ call' = [NoCall EXCEPT !.op = "addWatch", !.arg = <<f, u>>,
                                         !.threw = TRUE, !.enq = "addEventWatch",
                                         !.result = nextCb]
    /\ nextCb' = nextCb + 1
    /\ UNCHANGED <<appVars, nativeFilter, frames, eventVars, genVars, envVars, ghostVars,
                   arrVars>>

\* Event.removeWatch(filter, userdata)
RemoveWatch ==
    /\ target = "registry"
    /\ \E f \in Filters : \E u \in Userdatas :
          LET index == eventWatchersIndex(map, f, u) IN
          IF index = 0
          THEN /\ UNCHANGED <<nativeWatches, map>>
               /\ call' = [NoCall EXCEPT !.op = "removeWatch", !.arg = <<f, u>>]
          ELSE /\ map' = RemoveAt(map, index)
               /\ nativeWatches' =
                     removeEventWatch(nativeWatches, map[index].callback, u)
               /\ call' = [NoCall EXCEPT !.op = "removeWatch", !.arg = <<f, u>>,
                                         !.enq = "removeEventWatch",
                                         !.result = map[index].callback]
    /\ UNCHANGED <<appVars, nativeFilter, nextCb, frames, eventVars, genVars, envVars,
                   ghostVars, arrVars>>

\* Event.getFilter(): null when SDL_GetEventFilter reports no filter;
\* otherwise the registry entry whose callback handle and userdata are the
\* native ones, null if there is none
getFilter(m, nf) ==
    IF nf = <<>> THEN <<>>
    ELSE LET i == FindIndex({k \in 1..Len(m) :
                                m[k].callback = nf.callback
                                    /\ m[k].userdata = nf.userdata})
         IN IF i = 0 THEN <<>>
            ELSE [filter |-> m[i].filter, userdata |-> m[i].userdata]

GetFilter ==
    /\ target = "registry"
    /\ call' = [NoCall EXCEPT !.op = "getFilter", !.enq = "getEventFilter",
                              !.ret = (nativeFilter # <<>>),
                              !.result = getFilter(map, nativeFilter)]
    /\ UNCHANGED <<appVars, watchVars, frames, eventVars, genVars, envVars,
                   ghostVars, arrVars>>

\* SDL_FilterEvents: the events the filter answers false for are removed
filterEvents(q, keep) == SelectSeq(q, LAMBDA r : keep)

\* Event.filter(filter, userdata): a callback is created, used for the one
\* native call and closed
Filter ==
    /\ target = "registry"
    /\ nextCb <= MaxCb
    /\ \E f \in Filters : \E u \in Userdatas : \E keep \in BOOLEAN :
          /\ queue' = filterEvents(queue, keep)
          /\ call' = [NoCall EXCEPT !.op = "filter", !.arg = <<f, u>>,
                                    !.enq = "filterEvents", !.result = nextCb]
    /\ nextCb' = nextCb + 1
    /\ UNCHANGED <<appVars, map, nativeFilter, nativeWatches, frames, buffer,
                   type, genVars, envVars, ghostVars, arrVars>>

InitWatch ==
    /\ queue = <<>>
    /\ buffer = ZeroRec
    /\ type = 0
    /\ pc = "start"
    /\ interval = 1
    /\ hasIdle = FALSE
    /\ nextFrame = 0
    /\ quit = FALSE
    /\ t0 = 0
    /\ cycles = 0
    /\ sleepReq = 0
    /\ sleepAt = 0
    /\ completion = "none"
    /\ now = 0
    /\ produced = 0
    /\ dequeued = <<>>
    /\ yielded = <<>>
    /\ hist = <<>>
    /\ call = NoCall
    /\ target = "registry"
    /\ maxEvents = 0
    /\ buf = <<>>
    /\ numEvents = 0
    /\ frames = <<>>
    /\ map = <<>>
    /\ nativeFilter = <<>>
    /\ nativeWatches = <<>>
    /\ nextCb = 1
    /\ ConfIdle
    /\ SnakeIdle

NextWatch ==
    \/ SetFilter
    \/ AddWatch
    \/ RemoveWatch
    \/ GetFilter
    \/ Filter

SpecWatch == InitWatch /\ [][NextWatch]_vars

(***************************************************************************)
(* loadConfig: the paths of the native libraries.  A path is the sequence  *)
(* of its components, an absolute one starting with "/"; the empty string  *)
(* is the empty sequence.  A config value is absent when its field is not  *)
(* in the record's domain; `lib` and `env` carry their JavaScript type.    *)
(***************************************************************************)
\* the event layer is not used
EventIdle ==
    /\ queue = <<>>
    /\ buffer = ZeroRec
    /\ type = 0
    /\ pc = "start"
    /\ interval = 1
    /\ hasIdle = FALSE
    /\ nextFrame = 0
    /\ quit = FALSE
    /\ t0 = 0
    /\ cycles = 0
    /\ sleepReq = 0
    /\ sleepAt = 0
    /\ completion = "none"
    /\ now = 0
    /\ produced = 0
    /\ dequeued = <<>>
    /\ yielded = <<>>
    /\ hist = <<>>
    /\ call = NoCall
    /\ maxEvents = 0
    /\ buf = <<>>
    /\ numEvents = 0
    /\ frames = <<>>
    /\ map = <<>>
    /\ nativeFilter = <<>>
    /\ nativeWatches = <<>>
    /\ nextCb = 1

eventLayerVars == <<eventVars, genVars, envVars, ghostVars, call, arrVars, frames,
                    watchVars>>

LibNames == {"SDL3", "SDL3_image", "SDL3_ttf"}
ConfigKey(name) ==
    CASE name = "SDL3" -> "sdl3"
      [] name = "SDL3_image" -> "sdl3_image"
      [] OTHER -> "sdl3_ttf"

OSes == {"windows", "darwin", "linux"}
EnvNames == {"DENO_SDL3_PATH", "SDL3_DENO_PATH", "MY_SDL"}

CwdSdl3 == <<"sdl3">>
CwdLib == <<"lib">>
ModSdl3 == <<"/", "mod", "sdl3">>
ModLib == <<"/", "mod", "lib">>
DirA == <<"/", "a">>
Dirs == {CwdSdl3, CwdLib, ModSdl3, DirA}

\* JavaScript truthiness of a path string; an absent one reads as empty
Truthy(v) == v # <<>>

\* config?.key of a path-valued field
Get(c, key) == IF key \in DOMAIN c THEN c[key] ELSE <<>>

\* config?.key of a field that carries its type
GetTyped(c, key) == IF key \in DOMAIN c THEN c[key] ELSE [kind |-> "undefined"]

\* path.join(dir, f)
Join(dir, f) == dir \o <<f>>

\* path.resolve(p)
Resolve(p) == IF p # <<>> /\ p[1] = "/" THEN p ELSE <<"/", "cwd">> \o p

\* `${OS_PREFIX}${name}${OS_SUFFIX}`
FileName(os, name) ==
    (IF os = "windows" THEN "" ELSE "lib") \o name
        \o (IF os = "windows" THEN ".dll" ELSE IF os = "darwin" THEN ".dylib" ELSE ".so")

\* a lookup under the name the documentation of UserConfig.env gives
DefaultEnvDocumented == "SDL3_DENO_PATH"

\* the variable libPath reads when config.env is not a string
DefaultEnv == "DENO_SDL3_PATH"

\* const env = typeof config?.env === 'string' ? config.env : "DENO_SDL3_PATH"
EnvName(c) ==
    LET e == GetTyped(c, "env")
    IN IF e.kind = "string" THEN e.v ELSE DefaultEnv

\* config?.env !== false
EnvEnabled(c) ==
    LET e == GetTyped(c, "env")
    IN ~(e.kind = "boolean" /\ e.v = "false")

\* Deno.env.get(name)
EnvGet(name) == IF name \in DOMAIN environ.vars THEN environ.vars[name] ELSE <<>>

\* defaultLibPaths(): ./sdl3, ./lib, then the module-relative ones when the
\* module does not live in the working directory
defaultLibPaths ==
    <<CwdSdl3, CwdLib>> \o (IF environ.moduleElsewhere THEN <<ModSdl3, ModLib>> ELSE <<>>)

\* fs.exists(path.join(dir, f))
Exists(dir) == dir \in fsDirs

\* for (const dir of ...) if (await fs.exists(...)) return ...
FirstExisting(dirs) ==
    LET S == {i \in 1..Len(dirs) : Exists(dirs[i])}
    IN IF S = {} THEN 0 ELSE CHOOSE i \in S : \A j \in S : i <= j

\* the library path search with the environment looked up after config.lib
libPathLibFirst(name, c) ==
    LET f == FileName(environ.os, name)
        lib == GetTyped(c, "lib")
        envPath == EnvGet(EnvName(c))
    IN IF lib.kind = "string" THEN Join(lib.v, f)
       ELSE IF EnvEnabled(c) /\ Truthy(envPath) THEN Join(envPath, f)
       ELSE LET dirs == IF lib.kind = "list" THEN lib.dirs ELSE defaultLibPaths
                i == FirstExisting(dirs)
            IN IF i = 0 THEN <<f>> ELSE Join(dirs[i], f)

\* libPath(name, config)
libPath(name, c) ==
    LET f == FileName(environ.os, name)
        lib == GetTyped(c, "lib")
        envPath == EnvGet(EnvName(c))
    IN IF EnvEnabled(c) /\ Truthy(envPath) THEN Join(envPath, f)
       ELSE IF lib.kind = "string" THEN Join(lib.v, f)
       ELSE LET dirs == IF lib.kind = "list" THEN lib.dirs ELSE defaultLibPaths
                i == FirstExisting(dirs)
            IN IF i = 0 THEN <<f>> ELSE Join(dirs[i], f)

\* the variables libPath consults
Consulted(c) == IF EnvEnabled(c) THEN {EnvName(c)} ELSE {}

\* config?.sdl3 || await libPath('SDL3', config), then path.resolve
LibOf(name, c) ==
    LET own == Get(c, ConfigKey(name))
    IN Resolve(IF Truthy(own) THEN own ELSE libPath(name, c))

\* loadConfig()
LoadConfig ==
    /\ target = "config"
    /\ loaded = <<>>
    /\ loaded' = [paths |-> [n \in LibNames |-> LibOf(n, config)],
                  consulted |-> IF \A n \in LibNames : Truthy(Get(config, ConfigKey(n)))
                                THEN {} ELSE Consulted(config)]
    /\ UNCHANGED <<config, environ, fsDirs, snakeVars, eventLayerVars, target>>

\* the user configs of the model
OwnPaths == {<<>>, <<"/", "opt", "SDL3.bin">>}
LibValues ==
    {[kind |-> "string", v |-> DirA], [kind |-> "string", v |-> <<>>],
     [kind |-> "list", dirs |-> <<>>], [kind |-> "list", dirs |-> <<DirA>>],
     [kind |-> "list", dirs |-> <<DirA, CwdLib>>],
     [kind |-> "list", dirs |-> <<CwdLib, DirA>>]}
EnvValues ==
    {[kind |-> "boolean", v |-> "true"], [kind |-> "boolean", v |-> "false"],
     [kind |-> "string", v |-> "MY_SDL"]}

WithField(cs, key, vals) ==
    cs \cup {c @@ (key :> v) : c \in cs, v \in vals}

Configs ==
    {<<>>} \cup WithField(WithField(WithField({<<>>}, "sdl3", OwnPaths),
                                    "lib", LibValues), "env", EnvValues)

Environs ==
    {[os |-> o, moduleElsewhere |-> m, vars |-> v] :
        o \in OSes, m \in BOOLEAN,
        v \in UNION {[S -> {<<"/", "env">>}] : S \in SUBSET EnvNames}}

InitConfig ==
    /\ EventIdle
    /\ SnakeIdle
    /\ target = "config"
    /\ config \in Configs
    /\ environ \in Environs
    /\ fsDirs \in SUBSET Dirs
    /\ loaded = <<>>

NextConfig == LoadConfig

SpecConfig == InitConfig /\ [][NextConfig]_vars

(***************************************************************************)
(* examples/snake.ts: SnakeContext and the key handling of its main loop.  *)
(* The grid is scaled down; a position is [x, y], a cell holds the name of *)
(* its SnakeCell, and createFood's random draw is a choice among the       *)
(* Nothing cells.  lastMove is the direction of the most recent head move  *)
(* and starved records a createFood call on a grid without a Nothing cell, *)
(* whose search loop never ends.                                           *)
(***************************************************************************)
snakeGameWidth == 3
snakeGameHeight == 3

Directions == {"RIGHT", "UP", "LEFT", "DOWN"}

\* (dir + 1) as SnakeCell
DirCell(dir) ==
    CASE dir = "RIGHT" -> "SRIGHT"
      [] dir = "UP" -> "SUP"
      [] dir = "LEFT" -> "SLEFT"
      [] OTHER -> "SDOWN"

SnakeCells == {"SRIGHT", "SUP", "SLEFT", "SDOWN"}

CellCount == snakeGameWidth * snakeGameHeight

Index(pos) == pos.y * snakeGameWidth + pos.x

cellAt(cs, pos) == cs[Index(pos)]

setCell(cs, pos, c) == [cs EXCEPT ![Index(pos)] = c]

InGrid(pos) ==
    /\ 0 <= pos.x /\ pos.x < snakeGameWidth
    /\ 0 <= pos.y /\ pos.y < snakeGameHeight

\* the position one cell further in the direction a snake cell stores
Forward(pos, c) ==
    CASE c = "SRIGHT" -> [pos EXCEPT !.x = @ + 1]
      [] c = "SUP" -> [pos EXCEPT !.y = @ - 1]
      [] c = "SLEFT" -> [pos EXCEPT !.x = @ - 1]
      [] c = "SDOWN" -> [pos EXCEPT !.y = @ + 1]
      [] OTHER -> pos

Center == [x |-> snakeGameWidth \div 2, y |-> snakeGameHeight \div 2]

\* a fullness test that is one food late
cellsFullLate(o) == o = CellCount + 1

\* cellsFull()
cellsFull(o) == o = CellCount

\* the outcomes of one createFood(): none when no cell is Nothing
createFood(cs) ==
    {[cs EXCEPT ![i] = "FOOD"] : i \in {j \in DOMAIN cs : cs[j] = "Nothing"}}

\* the outcomes of k createFood() calls in a row: the grids with k of the
\* Nothing cells turned to FOOD, each enumerated once (in the order of the
\* cells, above lo); none when fewer than k cells are Nothing
RECURSIVE createFoods(_, _, _)
createFoods(cs, k, lo) ==
    IF k = 0 THEN {cs}
    ELSE UNION {createFoods([cs EXCEPT ![i] = "FOOD"], k - 1, i) :
                    i \in {j \in DOMAIN cs : j > lo /\ cs[j] = "Nothing"}}

\* a redir that takes every direction
redirAny(dir, c) == TRUE

\* the condition under which redir(dir) takes the direction, c the head's cell
redirAllowed(dir, c) ==
    \/ dir = "RIGHT" /\ c # "SLEFT"
    \/ dir = "LEFT" /\ c # "SRIGHT"
    \/ dir = "UP" /\ c # "SDOWN"
    \/ dir = "DOWN" /\ c # "SUP"

\* a step that does not look at what the head runs into
hitSelfNever(cell) == FALSE

\* cell !== SnakeCell.FOOD && cell !== SnakeCell.Nothing
hitSelf(cell) == cell # "FOOD" /\ cell # "Nothing"

\* new SnakeContext()
InitSnake ==
    /\ EventIdle
    /\ ConfIdle
    /\ target = "snake"
    /\ cells = [i \in 0..(CellCount - 1) |-> "Nothing"]
    /\ head = Center
    /\ tail = Center
    /\ next_dir = "RIGHT"
    /\ inhibit_tail_step = 0
    /\ occupied_cells = 0
    /\ state = "Init"
    /\ lastMove = "RIGHT"
    /\ starved = FALSE

\* start(), on any key outside a game and on R within one
SnakeStart ==
    /\ target = "snake"
    /\ ~starved
    /\ state # "Pausing"
    /\ LET cleared == [i \in 0..(CellCount - 1) |-> "Nothing"]
           withTail == setCell(cleared, Center, "SRIGHT")
           foods == createFoods(withTail, 4, -1)
       IN /\ head' = Center
          /\ tail' = Center
          /\ next_dir' = "RIGHT"
          /\ lastMove' = "RIGHT"
          /\ state' = "Playing"
          /\ inhibit_tail_step' = 4
          /\ IF foods = {}
             THEN /\ starved' = TRUE
                  /\ cells' = withTail
                  /\ occupied_cells' = 3
             ELSE /\ starved' = FALSE
                  /\ cells' \in foods
                  /\ occupied_cells' = 3 + 4
    /\ UNCHANGED <<confVars, eventLayerVars, target>>

\* redir(dir), on an arrow key within a game
SnakeRedir ==
    /\ target = "snake"
    /\ ~starved
    /\ state = "Playing"
    /\ \E dir \in Directions :
          next_dir' = IF redirAllowed(dir, cellAt(cells, head)) THEN dir ELSE next_dir
    /\ UNCHANGED <<cells, head, tail, inhibit_tail_step, occupied_cells, state, lastMove,
                   starved, confVars, eventLayerVars, target>>

\* toggle_pause(), on ESC within a game, on a key while pausing, on a click
SnakeTogglePause ==
    /\ target = "snake"
    /\ ~starved
    /\ state \in {"Playing", "Pausing"}
    /\ state' = IF state = "Playing" THEN "Pausing" ELSE "Playing"
    /\ UNCHANGED <<cells, head, tail, next_dir, inhibit_tail_step, occupied_cells, lastMove,
                   starved, confVars, eventLayerVars, target>>

\* step()
SnakeStep ==
    /\ target = "snake"
    /\ ~starved
    /\ state = "Playing"
    /\ LET moveTail == inhibit_tail_step - 1 = 0
           inhibit == IF moveTail THEN 1 ELSE inhibit_tail_step - 1
           ct == cellAt(cells, tail)
           cells1 == IF moveTail THEN setCell(cells, tail, "Nothing") ELSE cells
           tail1 == IF moveTail THEN Forward(tail, ct) ELSE tail
           head1 == Forward(head, DirCell(next_dir))
       IN /\ tail' = tail1
          /\ head' = head1
          /\ lastMove' = next_dir
          /\ UNCHANGED next_dir
          /\ IF ~InGrid(head1)
             THEN /\ state' = "Game Over"
                  /\ cells' = cells1
                  /\ inhibit_tail_step' = inhibit
                  /\ UNCHANGED <<occupied_cells, starved>>
             ELSE LET cell == cellAt(cells1, head1)
                      cells2 == setCell(setCell(cells1, head, DirCell(next_dir)),
                                        head1, DirCell(next_dir))
                  IN IF hitSelf(cell)
                     THEN /\ state' = "Game Over"
                          /\ cells' = cells2
                          /\ inhibit_tail_step' = inhibit
                          /\ UNCHANGED <<occupied_cells, starved>>
                     ELSE IF cell = "FOOD"
                     THEN IF cellsFull(occupied_cells)
                          THEN /\ state' = "Congratulation"
                               /\ cells' = cells2
                               /\ inhibit_tail_step' = inhibit
                               /\ UNCHANGED <<occupied_cells, starved>>
                          ELSE IF createFood(cells2) = {}
                          THEN /\ state' = "Game Over"
                               /\ cells' = cells2
                               /\ inhibit_tail_step' = inhibit
                               /\ starved' = TRUE
                               /\ UNCHANGED occupied_cells
                          ELSE /\ state' = "Playing"
                               /\ cells' \in createFood(cells2)
                               /\ occupied_cells' = occupied_cells + 1
                               /\ inhibit_tail_step' = inhibit + 1
                               /\ UNCHANGED starved
                     ELSE /\ state' = "Playing"
                          /\ cells' = cells2
                          /\ inhibit_tail_step' = inhibit
                          /\ UNCHANGED <<occupied_cells, starved>>
    /\ UNCHANGED <<confVars, eventLayerVars, target>>

NextSnake == SnakeStart \/ SnakeRedir \/ SnakeTogglePause \/ SnakeStep

SpecSnake == InitSnake /\ [][NextSnake]_vars

(***************************************************************************)
(* Properties of Event.iter                                                *)
(***************************************************************************)
LastYieldQuit == Len(yielded) > 0 /\ yielded[Len(yielded)].tag = QUIT

LastStep == IF hist = <<>> THEN "none" ELSE hist[Len(hist)]

\* C1: once the generator has yielded an event whose tag, as read by the
\* poll that loaded it, is QUIT, it stays suspended at that yield until it is
\* resumed and is then complete: no event is yielded after a QUIT-tagged
\* one, whatever is queued and whatever the consumer did to the Event.
C1_QuitEndsIteration ==
    /\ \A i \in 1..Len(yielded) : yielded[i].tag = QUIT => i = Len(yielded)
    /\ LastYieldQuit => pc \in {"yield", "done"}

\* C1 witness: the generator completed after a QUIT-tagged yield although the
\* consumer had replaced the Event's tag and a record was still queued.
C1_Witness ==
    /\ pc = "done"
    /\ completion = "return"
    /\ LastYieldQuit
    /\ type # QUIT
    /\ queue # <<>>

\* C2: the yielded events are exactly the records the generator's poll()
\* calls dequeued, in dequeue order, none skipped, duplicated or reordered;
\* a dequeued record is yielded before the next one is dequeued, and the
\* records the platform delivered come out in delivery order.
C2_YieldedIsDequeued ==
    /\ Len(yielded) <= Len(dequeued)
    /\ Len(dequeued) <= Len(yielded) + 1
    /\ (Len(dequeued) = Len(yielded) + 1) <=> (pc = "polled")
    /\ \A i \in 1..Len(yielded) : yielded[i].rec = dequeued[i]
    /\ \A i, j \in 1..Len(yielded) :
          (i < j /\ yielded[i].rec.timestamp > 0 /\ yielded[j].rec.timestamp > 0)
              => yielded[i].rec.timestamp < yielded[j].rec.timestamp

\* C2 witness: two delivered records were yielded, one after the other.
C2_Witness ==
    /\ Len(yielded) >= 2
    /\ yielded[1].rec.timestamp = 1
    /\ yielded[2].rec.timestamp = 2
    /\ pc = "yield"

StepOk(prev, step) ==
    /\ step = "idle" => prev = "pollF"
    /\ step = "sleep" => prev = (IF hasIdle THEN "idle" ELSE "pollF")
    /\ step = "wake" => prev = "sleep"
    /\ step \in {"pollT", "pollF"} => prev \in {"resume", "wake"}
    /\ step = "yield" => prev = "pollT"
    /\ prev = "pollF" => step = (IF hasIdle THEN "idle" ELSE "sleep")
    /\ prev = "idle" => step = "sleep"
    /\ prev = "sleep" => step = "wake"

\* C3: onIdle, when provided, runs exactly once per loop cycle, only right
\* after a poll() that returned false and never between two yields of one
\* drain, and exactly one timer suspension (set, then fired) lies between an
\* onIdle call and the next poll(); without onIdle nothing is called.
C3_IdleOncePerCycle ==
    /\ \A i \in 2..Len(hist) : StepOk(hist[i - 1], hist[i])
    /\ (Len(hist) > 0 /\ Len(hist) < HistLen) => hist[1] \in {"pollT", "pollF"}
    /\ ~hasIdle => \A i \in 1..Len(hist) : hist[i] # "idle"

\* C3 witness: an empty poll, onIdle, one suspension, then the next poll.
C3_Witness ==
    /\ hasIdle
    /\ Len(hist) >= 4
    /\ SubSeq(hist, Len(hist) - 3, Len(hist)) = <<"idle", "sleep", "wake", "pollT">>

\* C4: with t0 the clock value when the generator first runs, the k-th
\* suspension requests a delay of max(0, t0 + k*interval - now): the wake
\* target advances by exactly interval per cycle, the delay is never
\* negative, and a late cycle does not move the targets of later cycles.
C4_AbsoluteSchedule ==
    /\ pc \notin {"start"} => nextFrame = t0 + (cycles + 1) * interval
    /\ cycles >= 1 =>
          /\ sleepReq = Max0(t0 + cycles * interval - sleepAt)
          /\ sleepReq >= 0

\* C4 witness: a second suspension set after the first target had passed,
\* sleeping only the remainder up to the second target.
C4_Witness ==
    /\ cycles = 2
    /\ pc = "sleep"
    /\ sleepAt > t0 + interval
    /\ sleepReq > 0
    /\ sleepReq < interval

LoadOps == {"poll", "wait", "waitTimeout"}

\* C6: poll, wait and waitTimeout return true exactly when the native call
\* dequeued a record into the backing buffer, and Event.type is then that
\* record's tag; when they return false (empty queue, timeout, wait error)
\* nothing is thrown and Event.type, the buffer and the queue are unchanged.
C6_LoadContract ==
    [][ call'.op \in LoadOps =>
          /\ ~call'.threw
          /\ call'.ret =>
                /\ queue # <<>>
                /\ queue' = Tail(queue)
                /\ buffer' = Head(queue)
                /\ type' = Head(queue).type
          /\ ~call'.ret => (queue' = queue /\ buffer' = buffer /\ type' = type)
          /\ (~call'.ret /\ call'.op # "wait") => queue = <<>>
      ]_vars

\* C6 witness: a wait that failed with a record still queued, after an
\* earlier call had loaded an event: the tag of that event is still cached.
C6_Witness ==
    /\ call.op = "wait"
    /\ ~call.ret
    /\ queue # <<>>
    /\ type = LAST + 1
    /\ buffer.type = type

\* C7: Event.push() either appends exactly one record equal to the buffer to
\* the native queue and returns true, or leaves the queue unchanged and
\* returns false (queue full or filter rejected); the buffer and Event.type
\* are unchanged either way.
C7_PushAllOrNothing ==
    [][ (call'.op = "push" /\ call'.obj = "event") =>
          /\ ~call'.threw
          /\ buffer' = buffer
          /\ type' = type
          /\ \/ call'.ret /\ queue' = Append(queue, buffer)
             \/ /\ ~call'.ret
                /\ queue' = queue
                /\ call'.enq = "filtered" \/ Len(queue) = MaxQueue
      ]_vars

\* C7 witness: a push refused by a full queue.
C7_Witness ==
    /\ call.op = "push"
    /\ call.obj = "event"
    /\ ~call.ret
    /\ call.enq = "full"
    /\ Len(queue) = MaxQueue
    /\ buffer.type = QUIT

\* C8 as claimed: a variant push on an Event whose enqueue fails because the
\* native queue is full signals the failure by throwing.
C8_FailedPushThrows ==
    (call.obj = "event" /\ call.op \in Variants /\ call.enq = "full") => call.threw

\* the record a variant push has just written
WrittenRec == IF call.obj = "event" THEN buffer ELSE buf[numEvents]

\* the value a field the caller did not supply gets
DefaultOf(v, f) == IF f = "type" THEN ImpliedTag(v) ELSE 0

FieldsAsMerged ==
    \A f \in VariantFields(call.op) :
        WrittenRec[f] = (IF f \in DOMAIN call.arg THEN call.arg[f]
                         ELSE DefaultOf(call.op, f))

\* C9 as claimed: the record a variant push writes has the caller's fields
\* as supplied and the others zero, push() is called once, and for the
\* variants whose name implies a tag the type written is that tag for every
\* argument.
C9_ImpliedTagAlways ==
    (call.op \in Variants /\ ~call.threw) =>
        /\ \A f \in VariantFields(call.op) \ {"type"} :
              WrittenRec[f] = (IF f \in DOMAIN call.arg THEN call.arg[f] ELSE 0)
        /\ call.op \in Implied => WrittenRec.type = ImpliedTag(call.op)
        /\ call.op \notin Implied => WrittenRec.type = call.arg.type
        /\ call.pushes = 1

\* C9 amended: every field of the variant that the caller supplied, the type
\* included, is written as supplied; a field not supplied is written as its
\* default, reserved = 0, timestamp = 0 and, for the variants whose name
\* implies a tag, type = that tag; push() is then called exactly once.
C9_VariantPushRecord ==
    (call.op \in Variants /\ ~call.threw) => (FieldsAsMerged /\ call.pushes = 1)

\* C9 witness: pushQuit({}) on an Event holding a delivered record: the
\* header is rewritten from the defaults, over the stale timestamp.
C9_Witness ==
    /\ call.op = "pushQuit"
    /\ call.obj = "event"
    /\ call.arg = <<>>
    /\ ~call.threw
    /\ buffer = Rec(QUIT, 0, 0, 1)
    /\ type = LAST + 1

Projections(b) ==
    {read_CommonEvent(b), read_QuitEvent(b), read_KeyboardEvent(b),
     read_MouseMotionEvent(b), read_UserEvent(b)}

\* C10 as claimed: toObject() returns without throwing in every reachable
\* state of the Event or EventArray it is called on, and its result is a
\* projection of the record viewed: the matching typed one or the common one.
C10_ToObjectTotal ==
    call.op = "toObject" =>
        /\ ~call.threw
        /\ call.result \in
              Projections(IF call.obj = "event" THEN buffer ELSE buf[numEvents + 1])

(***************************************************************************)
(* Properties of the EventArray                                            *)
(***************************************************************************)
\* the record the object of the last call views
Viewed == IF call.obj = "event" THEN buffer ELSE buf[numEvents + 1]

\* C11 as claimed: toObject() returns the projection selected by the tag of
\* the record currently viewed (QUIT -> quit, KEY_DOWN -> keyboard,
\* MOUSE_MOTION -> mouseMotion, USER..LAST -> user, any other tag -> common),
\* on an Event and on a record viewed through EventArray.get or fold.
C11_DispatchByTag ==
    (call.op = "toObject" /\ ~call.threw) =>
        call.result = toObject(Viewed.type, Viewed)

\* C12: EventArray.push() and every variant push on a batch whose numEvents
\* equals maxEvents throw, leave numEvents equal to maxEvents and leave every
\* record of the buffer unchanged.
C12_FullBatchThrows ==
    [][ (call'.obj = "array" /\ call'.op \in Variants \cup {"push"}
            /\ numEvents = maxEvents) =>
          /\ call'.threw
          /\ numEvents' = maxEvents
          /\ buf' = buf
      ]_vars

\* C12 witness: a variant push thrown back by a batch filled to its capacity
\* with two staged records.
C12_Witness ==
    /\ call.obj = "array"
    /\ call.op = "pushKeyboard"
    /\ call.threw
    /\ maxEvents = MaxBatch
    /\ numEvents = maxEvents
    /\ buf[1].type = QUIT
    /\ buf[maxEvents].type = USER + 1

\* C13 as claimed: in every reachable state of an EventArray, 0 <= numEvents
\* <= maxEvents and the buffer is maxEvents * 128 bytes long.
C13_CursorWithinCapacity ==
    /\ 0 <= numEvents
    /\ numEvents <= maxEvents
    /\ Len(buf) * SizeOfSdlEvent = maxEvents * SizeOfSdlEvent

\* C14: get(i, fn) leaves numEvents equal to its value before the call,
\* when fn returns and when fn throws, whatever fn did to the batch, and
\* when get itself throws its index error.
C14_GetRestoresCursor ==
    [][ /\ (frames # <<>> /\ Top.op = "get" /\ frames' = Outer) =>
              numEvents' = Top.entry
        /\ (call'.op = "get" /\ call'.enq = "range") => numEvents' = numEvents
      ]_vars

\* C14 witness: a get on a batch of two records has returned by an exception
\* of its callback, which had moved the cursor; the cursor is back at two.
C14_Witness ==
    /\ call.op = "get"
    /\ call.threw
    /\ call.enq = "moved"
    /\ frames = <<>>
    /\ numEvents = 2

\* C15: fold(fn) calls fn on records 0, 1, ... in increasing index order
\* with the view on record i during call i, on all n records (n = numEvents
\* at entry) unless a call returns false or throws, after which it makes no
\* further call; it restores numEvents to n in every case.
C15_FoldInOrder ==
    /\ [](/\ call.op = "fold.f" => (numEvents = call.arg /\ Top.i = call.arg)
          /\ call.op = "fold" =>
                /\ \A k \in 1..Len(call.result) :
                      call.result[k] = <<k - 1, k - 1>>
                /\ Len(call.result) <= Max0(numEvents)
                /\ call.ret => Len(call.result) = Max0(numEvents))
    /\ [][ (frames # <<>> /\ Top.op = "fold" /\ frames' = Outer) =>
              numEvents' = Top.entry ]_vars

\* C15 witness: a fold over two records stopped by the false its first
\* callback returned; the cursor is back at two.
C15_Witness ==
    /\ call.op = "fold"
    /\ ~call.ret
    /\ ~call.threw
    /\ Len(call.result) = 1
    /\ frames = <<>>
    /\ numEvents = 2

\* C16 as claimed: inside the callback of a get or fold, get(j, g) for an
\* index j that was valid before the outermost call runs g (it does not
\* throw the index error), and fold(g) runs g on all the records the batch
\* held before the outermost call.
C16_NestedReachesAll ==
    frames # <<>> =>
        /\ (call.op = "get" /\ call.enq = "range") =>
              ~(0 <= call.arg /\ call.arg < frames[1].entry)
        /\ (call.op = "fold" /\ call.ret) => Len(call.result) = frames[1].entry

\* C17: Event.peep on a batch throws when the native call returns -1 and
\* then leaves numEvents unchanged; otherwise it returns the native count,
\* sets numEvents to it for PEEKEVENT and GETEVENT and leaves numEvents
\* unchanged for ADDEVENT.
C17_PeepCursor ==
    [][ call'.op = "peep" =>
          IF call'.result.r = -1
          THEN call'.threw /\ numEvents' = numEvents
          ELSE /\ ~call'.threw
               /\ call'.result.returned = call'.result.r
               /\ call'.arg \in {"PEEKEVENT", "GETEVENT"} =>
                     numEvents' = call'.result.r
               /\ call'.arg = "ADDEVENT" => numEvents' = numEvents
      ]_vars

\* C17 witness: an ADDEVENT for which the native queue took one record, on a
\* batch whose cursor is still at two.
C17_Witness ==
    /\ call.op = "peep"
    /\ call.arg = "ADDEVENT"
    /\ ~call.threw
    /\ call.result.r = 1
    /\ numEvents = 2

\* C18 as claimed: Event.peep(batch, ADDEVENT, ...) offers the native queue
\* exactly batch.numEvents records, those below the fill cursor.
C18_AddOffersStaged ==
    (call.op = "peep" /\ call.arg = "ADDEVENT") =>
        call.result.numevents = numEvents

(***************************************************************************)
(* Properties of the round trip through the queue and of the watches       *)
(***************************************************************************)
RoundTrip == {"pushQuit", "pushKeyboard", "pushUser"}

Installed(ws, f, u) == {i \in 1..Len(ws) : ws[i].filter = f /\ ws[i].userdata = u}

\* C20 as claimed: removeWatch(f, u) for a pair with a watch added and not
\* yet removed calls the native removal with the handle addWatch installed,
\* after which that watch is no longer installed and its registry entry is
\* gone; for a pair with no such watch it makes no native call and changes
\* nothing.
C20_RemoveWatchExact ==
    [][ call'.op = "removeWatch" =>
          LET f == call'.arg[1]
              u == call'.arg[2]
              out == Installed(nativeWatches, f, u)
          IN IF out # {}
             THEN /\ call'.enq = "removeEventWatch"
                  /\ \E i \in out :
                        /\ call'.result = nativeWatches[i].callback
                        /\ nativeWatches' = RemoveAt(nativeWatches, i)
                        /\ \E k \in 1..Len(map) :
                              /\ map[k].callback = nativeWatches[i].callback
                              /\ map' = RemoveAt(map, k)
             ELSE /\ call'.enq = "none"
                  /\ UNCHANGED <<map, nativeWatches, nativeFilter>>
      ]_vars

\* C21 as claimed: getFilter() returns {filter: f, userdata: u} whenever
\* the filter installed natively was installed by setFilter(f, u), whatever
\* calls were made in between, and null, without throwing, when no filter
\* is installed.
C21_GetFilterCurrent ==
    call.op = "getFilter" =>
        /\ ~call.threw
        /\ call.result =
              (IF nativeFilter = <<>> THEN <<>>
               ELSE [filter |-> nativeFilter.filter,
                     userdata |-> nativeFilter.userdata])

\* C24 as claimed: after any sequence of poll, wait, waitTimeout, push and
\* variant pushes on an Event, Event.type equals the tag stored in its
\* backing buffer.
C24_CachedTagIsBufferTag == target = "event" => type = buffer.type

\* C25 as claimed: get(index, fn) invokes fn only for an index in
\* [0, numEvents), numEvents being the cursor when get was called; for any
\* other index, negative ones included, fn is not invoked.
C25_GetIndexChecked ==
    call.op = "get.f" => (0 <= call.arg /\ call.arg < Top.entry)

\* the callback handles this layer has installed natively and not removed
InstalledHandles ==
    (IF nativeFilter = <<>> THEN {} ELSE {nativeFilter.callback})
        \cup {nativeWatches[i].callback : i \in 1..Len(nativeWatches)}

\* C26 as claimed: the registry holds exactly one entry per callback
\* currently installed natively (the current filter and each watch added
\* and not yet removed) and no entry for any other callback.
C26_RegistryExact ==
    /\ {map[i].callback : i \in 1..Len(map)} = InstalledHandles
    /\ Len(map) = Cardinality(InstalledHandles)

(***************************************************************************)
(* Properties of loadConfig                                                *)
(***************************************************************************)
\* the directories searched when neither a per-library path, nor the
\* environment, nor a single lib directory decides
SearchList ==
    IF "lib" \in DOMAIN config THEN config.lib.dirs
    ELSE IF environ.moduleElsewhere THEN <<CwdSdl3, CwdLib, ModSdl3, ModLib>>
    ELSE <<CwdSdl3, CwdLib>>

\* the path the documented precedence gives library n
Precedence(n) ==
    LET file == FileName(environ.os, n)
        key == ConfigKey(n)
        var == EnvName(config)
    IN IF key \in DOMAIN config /\ config[key] # <<>> THEN config[key]
       ELSE IF EnvEnabled(config) /\ var \in DOMAIN environ.vars /\ environ.vars[var] # <<>>
            THEN environ.vars[var] \o <<file>>
       ELSE IF "lib" \in DOMAIN config /\ config.lib.kind = "string"
            THEN config.lib.v \o <<file>>
       ELSE IF \E i \in 1..Len(SearchList) : SearchList[i] \in fsDirs
            THEN LET i == CHOOSE k \in 1..Len(SearchList) :
                              /\ SearchList[k] \in fsDirs
                              /\ \A j \in 1..(k - 1) : SearchList[j] \notin fsDirs
                 IN SearchList[i] \o <<file>>
       ELSE <<file>>

\* C22: every library path loadConfig returns is the one the precedence
\* gives: the per-library path when non-empty; else the directory in the
\* environment variable, when enabled and set, joined with the platform file
\* name; else config.lib as a single directory, unchecked, or the first
\* directory of the list (config.lib, or the default list) that holds the
\* file; else the bare platform file name.
C22_LibraryPathPrecedence ==
    loaded # <<>> =>
        \A n \in LibNames : loaded.paths[n] = Resolve(Precedence(n))

\* the environment and a single lib directory are both given, and the second
\* directory of a list is the first that holds the file
C22_Witness ==
    /\ loaded # <<>>
    /\ "sdl3" \notin DOMAIN config
    /\ "lib" \in DOMAIN config
    /\ \/ /\ config.lib.kind = "string"
          /\ config.lib.v = DirA
          /\ EnvName(config) \in DOMAIN environ.vars
          /\ loaded.paths["SDL3"] = <<"/", "env", FileName(environ.os, "SDL3")>>
       \/ /\ config.lib.kind = "list"
          /\ config.lib.dirs = <<DirA, CwdLib>>
          /\ fsDirs = {CwdLib, CwdSdl3}
          /\ ~EnvEnabled(config)
          /\ loaded.paths["SDL3"] = <<"/", "cwd", "lib", FileName(environ.os, "SDL3")>>

\* C23: the variable consulted is the documented default SDL3_DENO_PATH when
\* config.env is unset or true, the named variable when it is a string, and
\* none when it is false.
C23_EnvSelection ==
    loaded # <<>> =>
        loaded.consulted =
            (IF "env" \notin DOMAIN config \/ config.env = [kind |-> "boolean", v |-> "true"]
             THEN {DefaultEnvDocumented}
             ELSE IF config.env.kind = "string" THEN {config.env.v}
             ELSE {})

(***************************************************************************)
(* Properties of the snake game                                            *)
(***************************************************************************)
SnakeIndices == {i \in DOMAIN cells : cells[i] \in SnakeCells}

\* following the stored directions from pos, over cells not yet seen, visits
\* every snake cell and ends at head
RECURSIVE Walk(_, _)
Walk(pos, seen) ==
    /\ InGrid(pos)
    /\ cellAt(cells, pos) \in SnakeCells
    /\ Index(pos) \notin seen
    /\ IF pos = head THEN seen \cup {Index(pos)} = SnakeIndices
       ELSE Walk(Forward(pos, cellAt(cells, pos)), seen \cup {Index(pos)})

\* C27: whenever the state is Playing, head and tail lie inside the grid and
\* the walk from tail along the stored directions visits every snake cell
\* exactly once and ends at head.
C27_BodyIsSimplePath ==
    state = "Playing" => (InGrid(head) /\ InGrid(tail) /\ Walk(tail, {}))

\* a grown snake with a bend, its tail moving
C27_Witness ==
    /\ state = "Playing"
    /\ inhibit_tail_step = 1
    /\ Cardinality(SnakeIndices) >= 4
    /\ cellAt(cells, tail) # cellAt(cells, head)

\* C28: the state is Congratulation only when no cell of the grid is Nothing.
C28_FullWhenCongratulated ==
    state = "Congratulation" => \A i \in DOMAIN cells : cells[i] # "Nothing"

\* C29: createFood() is never invoked on a grid without a Nothing cell, from
\* start() or from step().
C29_FoodHasRoom == ~starved

\* step() has placed a food after one was eaten, on a grid left with a single
\* Nothing cell at most
C29_Witness ==
    /\ state = "Playing"
    /\ occupied_cells > 3 + 4
    /\ Cardinality({i \in DOMAIN cells : cells[i] = "Nothing"}) <= 1

Opposite(dir) ==
    CASE dir = "RIGHT" -> "LEFT"
      [] dir = "LEFT" -> "RIGHT"
      [] dir = "UP" -> "DOWN"
      [] OTHER -> "UP"

\* C30: while the state is Playing, next_dir is never the opposite of the
\* direction of the most recent move (RIGHT before the first move).
C30_NeverReverses ==
    state = "Playing" => next_dir # Opposite(lastMove)

\* after a move up, a redir has turned the snake left
C30_Witness ==
    /\ state = "Playing"
    /\ lastMove = "UP"
    /\ next_dir = "LEFT"
    /\ head # Center

====
